---- MODULE Spec2Model ----
(***************************************************************************)
(* Model of src/src/animation_generator.py: the prompt-template loader,    *)
(* the prompt renderer, the code post-processing (_clean_code,             *)
(* _ensure_class_name), the renderer and the driver generate_animation.    *)
(*                                                                         *)
(* Texts are sequences of symbols.  A symbol is one character, or one word *)
(* that the code treats as a unit ("python", "class", "Scene", a           *)
(* placeholder key, a file name): the regular expressions and the          *)
(* str.replace calls of the source are evaluated symbol by symbol, left to *)
(* right, exactly as Python's re.sub and str.replace scan characters.      *)
(***************************************************************************)
EXTENDS Naturals, Sequences, FiniteSets, TLC

VARIABLES
    pc,           \* per caller: where its call of generate_animation stands
    frame,        \* per caller: the locals of generate_animation and its stages
    result,       \* per caller: the result dict of generate_animation
    events,       \* per caller: the external calls its invocation has started, in order
    output_file,  \* content of src/generated_animations.py
    media,        \* the .mp4 files under media/videos/generated_animations, oldest first
    clock,        \* the wall clock in seconds, as last read by datetime.now()
    env,          \* prompt configuration, prompt files and credential of the process
    fn_args,      \* arguments (and environment) of a helper function called on its own
    fn_ret        \* what the helper returned or raised; NotCalled before the call

vars == <<pc, frame, result, events, output_file, media, clock, env, fn_args, fn_ret>>
pipelineVars == <<pc, frame, result, events, output_file, media, clock, env>>
fnVars == <<fn_args, fn_ret>>

NotCalled == [kind |-> "not_called"]

(***************************************************************************)
(* Bounded sets of texts                                                   *)
(***************************************************************************)
RECURSIVE SeqsUpTo(_, _)
SeqsUpTo(S, n) ==
    IF n = 0 THEN {<<>>}
    ELSE LET shorter == SeqsUpTo(S, n - 1)
         IN  shorter \cup {Append(s, x) : s \in {t \in shorter : Len(t) = n - 1}, x \in S}

RECURSIVE Concat(_)
Concat(chunks) ==
    IF chunks = <<>> THEN <<>> ELSE Head(chunks) \o Concat(Tail(chunks))

(***************************************************************************)
(* Text primitives of Python used by the source                            *)
(***************************************************************************)
Whitespace == {" ", "\n"}

\* text[i..] starts with lit
StartsAt(text, i, lit) ==
    /\ i + Len(lit) - 1 <= Len(text)
    /\ \A k \in 1..Len(lit) : text[i + k - 1] = lit[k]

\* lit in text (Python's `in` on strings)
Contains(text, lit) ==
    \E i \in 1..(Len(text) + 1) : StartsAt(text, i, lit)

\* first index at or after i that is not whitespace (the end of a greedy whitespace run)
RECURSIVE SkipSpace(_, _)
SkipSpace(text, i) ==
    IF i <= Len(text) /\ text[i] \in Whitespace THEN SkipSpace(text, i + 1) ELSE i

\* str.replace(old, new): every non-overlapping occurrence, leftmost first
RECURSIVE ReplaceFrom(_, _, _, _)
ReplaceFrom(text, i, old, new) ==
    IF i > Len(text) THEN <<>>
    ELSE IF StartsAt(text, i, old)
         THEN new \o ReplaceFrom(text, i + Len(old), old, new)
         ELSE <<text[i]>> \o ReplaceFrom(text, i + 1, old, new)

\* variant: str.replace(old, new, 1), which stops after the first occurrence
RECURSIVE ReplaceFirstFrom(_, _, _, _)
ReplaceFirstFrom(text, i, old, new) ==
    IF i > Len(text) THEN <<>>
    ELSE IF StartsAt(text, i, old)
         THEN new \o SubSeq(text, i + Len(old), Len(text))
         ELSE <<text[i]>> \o ReplaceFirstFrom(text, i + 1, old, new)

StrReplace_first_only(text, old, new) == ReplaceFirstFrom(text, 1, old, new)

StrReplace(text, old, new) == ReplaceFrom(text, 1, old, new)

\* str.strip()
RECURSIVE LStrip(_)
LStrip(text) ==
    IF text # <<>> /\ Head(text) \in Whitespace THEN LStrip(Tail(text)) ELSE text

RECURSIVE RStrip(_)
RStrip(text) ==
    IF text # <<>> /\ text[Len(text)] \in Whitespace
    THEN RStrip(SubSeq(text, 1, Len(text) - 1)) ELSE text

Strip(text) == RStrip(LStrip(text))

(***************************************************************************)
(* ManimCodeGenerator._clean_code                                          *)
(***************************************************************************)
\* the backtick character (a TLA+ string cannot hold it)
Backtick == "BACKTICK"
Fence == <<Backtick, Backtick, Backtick>>
FencePython == Fence \o <<"python">>

\* re.sub of the literal followed by greedy whitespace, replaced by '': scan from i,
\* drop each match, keep the rest
RECURSIVE ReSubDropFrom(_, _, _)
ReSubDropFrom(text, i, lit) ==
    IF i > Len(text) THEN <<>>
    ELSE IF StartsAt(text, i, lit)
         THEN ReSubDropFrom(text, SkipSpace(text, i + Len(lit)), lit)
         ELSE <<text[i]>> \o ReSubDropFrom(text, i + 1, lit)

ReSubDrop(text, lit) == ReSubDropFrom(text, 1, lit)

\* variant: only the fences tagged python are removed
_clean_code_python_fences_only(code) ==
    Strip(ReSubDrop(code, FencePython))

_clean_code(code) ==
    Strip(ReSubDrop(ReSubDrop(code, FencePython), Fence))

(***************************************************************************)
(* ManimCodeGenerator._ensure_class_name                                   *)
(* The pattern is: the word "class" (with no word boundary required       *)
(* before it), one or more whitespace, one or more word characters, then   *)
(* "(Scene)".  The name is matched greedily and "(" is no word character,  *)
(* so the name is the maximal run of word symbols.                         *)
(***************************************************************************)
NonWord == {" ", "\n", "(", ")", Backtick, "{", "}", "/", ".", ":"}

RECURSIVE SkipWord(_, _)
SkipWord(text, i) ==
    IF i <= Len(text) /\ text[i] \notin NonWord THEN SkipWord(text, i + 1) ELSE i

\* 0 when the pattern does not match at i, else the index just after the match
SceneClassMatchEnd(text, i) ==
    IF ~StartsAt(text, i, <<"class">>) THEN 0
    ELSE LET n == SkipSpace(text, i + 1)
             p == SkipWord(text, n)
         IN  IF n > i + 1 /\ p > n /\ StartsAt(text, p, <<"(", "Scene", ")">>)
             THEN p + 3 ELSE 0

RECURSIVE ReSubSceneClassFrom(_, _, _)
ReSubSceneClassFrom(text, i, replacement) ==
    IF i > Len(text) THEN <<>>
    ELSE IF SceneClassMatchEnd(text, i) # 0
         THEN replacement \o ReSubSceneClassFrom(text, SceneClassMatchEnd(text, i), replacement)
         ELSE <<text[i]>> \o ReSubSceneClassFrom(text, i + 1, replacement)

_ensure_class_name(code, expected_class_name) ==
    ReSubSceneClassFrom(code, 1, <<"class", " ", expected_class_name, "(", "Scene", ")">>)

(***************************************************************************)
(* _render_prompt_template and the prompt built by generate_plan           *)
(***************************************************************************)
\* f"{{{key}}}"
Placeholder(key) == <<"{", key, "}">>

\* values: the dict in insertion order, a sequence of <<key, value>>
RECURSIVE _render_prompt_template(_, _)
_render_prompt_template(template, values) ==
    IF values = <<>> THEN template
    ELSE _render_prompt_template(
             StrReplace(template, Placeholder(values[1][1]), values[1][2]),
             Tail(values))

UserRequestLabel == <<"\n", "\n", "User Request: ">>

\* generate_plan, lines 109-115: the text handed to model.generate_content
PlanPrompt(planner_template, user_prompt) ==
    LET full_prompt == _render_prompt_template(planner_template,
                                               << <<"user_prompt", user_prompt>> >>)
    IN  IF ~Contains(planner_template, Placeholder("user_prompt"))
        THEN full_prompt \o UserRequestLabel \o user_prompt
        ELSE full_prompt

\* generate_code, lines 160-168: the text handed to model.generate_content
CodePrompt(template, class_name, animation_plan, user_prompt) ==
    _render_prompt_template(template,
        << <<"class_name", <<class_name>> >>,
           <<"animation_plan", animation_plan>>,
           <<"plan_output", animation_plan>>,
           <<"user_prompt", user_prompt>> >>)

(***************************************************************************)
(* Prompt configuration and template loading                               *)
(* A path is a sequence of components, a component a sequence of symbols   *)
(* (<<".", ".">> is ".."); the working directory is /w and holds no        *)
(* symbolic links, so Path.resolve() only makes the path absolute and      *)
(* applies the ".." components.                                            *)
(***************************************************************************)
Cwd == << <<"w">> >>
PROMPTS_DIR == << <<"prompts">> >>
PROMPT_CONFIG_PATH == PROMPTS_DIR \o << <<"prompt_config.json">> >>
DEFAULT_PROMPT_CONFIG ==
    [k \in {"planner_prompt_file", "code_gen_prompt_file"} |->
        IF k = "planner_prompt_file" THEN <<"planner_system_prompt.txt">>
                                     ELSE <<"code_gen_system_prompt.txt">>]

DotDot == <<".", ".">>

\* the "/"-separated pieces of a string, empty ones included
RECURSIVE SplitSlash(_, _)
SplitSlash(s, cur) ==
    IF s = <<>> THEN <<cur>>
    ELSE IF Head(s) = "/" THEN <<cur>> \o SplitSlash(Tail(s), <<>>)
         ELSE SplitSlash(Tail(s), Append(cur, Head(s)))

\* pathlib drops empty and "." components when it parses a string
PathParts(s) == SelectSeq(SplitSlash(s, <<>>), LAMBDA c : c # <<>> /\ c # <<".">>)

IsAbsolute(s) == s # <<>> /\ Head(s) = "/"

\* PROMPTS_DIR / selected_file: an absolute right operand replaces the left one
JoinPromptsDir(selected_file) ==
    [absolute |-> IsAbsolute(selected_file),
     parts    |-> IF IsAbsolute(selected_file) THEN PathParts(selected_file)
                  ELSE PROMPTS_DIR \o PathParts(selected_file)]

RECURSIVE ApplyDotDot(_, _)
ApplyDotDot(parts, acc) ==
    IF parts = <<>> THEN acc
    ELSE IF Head(parts) = DotDot
         THEN ApplyDotDot(Tail(parts),
                          IF acc = <<>> THEN acc ELSE SubSeq(acc, 1, Len(acc) - 1))
         ELSE ApplyDotDot(Tail(parts), Append(acc, Head(parts)))

\* variant: Path.absolute(), which keeps the ".." components
Resolve_keeping_dotdot(path) ==
    (IF path.absolute THEN <<>> ELSE Cwd) \o path.parts

\* Path.resolve(): absolute parts with every ".." applied
Resolve(path) ==
    ApplyDotDot(path.parts, IF path.absolute THEN <<>> ELSE Cwd)

\* Path.relative_to(other) succeeds
IsRelativeTo(parts, other) ==
    Len(other) <= Len(parts) /\ SubSeq(parts, 1, Len(other)) = other

Raised(type, msg) == [kind |-> "raised", type |-> type, msg |-> msg]
Returned(value) == [kind |-> "returned", value |-> value]

IsStr(v) == v.type = "string"

\* fs_env.config: [exists, valid, object, items]: the file prompt_config.json
_load_prompt_config(fs_env) ==
    IF ~fs_env.config.exists THEN Returned(DEFAULT_PROMPT_CONFIG)
    ELSE IF ~fs_env.config.valid THEN Raised("ValueError", "Invalid JSON")
    ELSE IF ~fs_env.config.object THEN Raised("AttributeError", "no attribute 'items'")
    ELSE Returned(
        [k \in DOMAIN DEFAULT_PROMPT_CONFIG \cup
               {j \in DOMAIN fs_env.config.items : IsStr(fs_env.config.items[j])} |->
            IF k \in DOMAIN fs_env.config.items /\ IsStr(fs_env.config.items[k])
            THEN fs_env.config.items[k].s
            ELSE DEFAULT_PROMPT_CONFIG[k]])

\* the outcome, with the file-system calls made on the resolved path, in order
_get_prompt_template(config_key, fs_env) ==
    LET config == _load_prompt_config(fs_env)
    IN  IF config.kind = "raised" THEN [outcome |-> config, fs |-> <<>>]
        ELSE IF config_key \notin DOMAIN config.value \/ Strip(config.value[config_key]) = <<>>
        THEN [outcome |-> Raised("ValueError", "must be a non-empty string"), fs |-> <<>>]
        ELSE LET prompt_path == Resolve(JoinPromptsDir(config.value[config_key]))
                 prompts_dir_resolved == Resolve([absolute |-> FALSE, parts |-> PROMPTS_DIR])
             IN  IF ~IsRelativeTo(prompt_path, prompts_dir_resolved)
                 THEN [outcome |-> Raised("ValueError", "must be inside"), fs |-> <<>>]
                 ELSE IF prompt_path \notin DOMAIN fs_env.files /\ prompt_path # prompts_dir_resolved
                 THEN [outcome |-> Raised("FileNotFoundError", "not found"),
                       fs |-> << <<"exists", prompt_path>> >>]
                 ELSE IF prompt_path = prompts_dir_resolved
                 THEN [outcome |-> Raised("IsADirectoryError", "is a directory"),
                       fs |-> << <<"exists", prompt_path>>, <<"read_text", prompt_path>> >>]
                 ELSE [outcome |-> Returned(fs_env.files[prompt_path]),
                       fs |-> << <<"exists", prompt_path>>, <<"read_text", prompt_path>> >>]

(***************************************************************************)
(* AnimationRenderer                                                       *)
(***************************************************************************)
Qualities == <<"480p15", "720p30", "1080p60">>

\* media/videos/generated_animations/<dir>/<name>.mp4
VideoPath(dir, name) == dir \o "/" \o name \o ".mp4"

NoVideo == ""

\* variant: the most recently modified video wins over the expected paths
_find_latest_video_newest_first(class_name, files) ==
    IF files # <<>> THEN files[Len(files)] ELSE NoVideo

\* _find_latest_video: None is NoVideo; files is the media directory, oldest first
_find_latest_video(class_name, files) ==
    LET possible_paths == [i \in 1..Len(Qualities) |-> VideoPath(Qualities[i], class_name)]
        existing == {i \in 1..Len(possible_paths) :
                        \E k \in 1..Len(files) : files[k] = possible_paths[i]}
    IN  IF existing # {}
        THEN possible_paths[CHOOSE i \in existing : \A j \in existing : i <= j]
        ELSE IF files # <<>> THEN files[Len(files)]
        ELSE NoVideo

TimeoutMessage == <<"Rendering timed out (>2 minutes)">>
ManimNotFoundMessage == <<"Manim not found. Please install manim: pip install manim">>
VideoNotFoundMessage == <<"Video file not found after rendering">>

\* variant: no except clause for TimeoutExpired, so the generic one handles it
render_timeout_as_generic(class_name, run, files) ==
    IF run.kind = "exited"
    THEN LET output_log == run.stdout \o <<"\n">> \o run.stderr
         IN  IF run.returncode # 0
             THEN [success |-> FALSE, value |-> <<"Rendering failed: ">> \o run.stderr,
                   logs |-> output_log, searched |-> FALSE]
             ELSE LET video_path == _find_latest_video(class_name, files)
                  IN  IF video_path # NoVideo
                      THEN [success |-> TRUE, value |-> <<video_path>>,
                            logs |-> output_log, searched |-> TRUE]
                      ELSE [success |-> FALSE, value |-> VideoNotFoundMessage,
                            logs |-> output_log, searched |-> TRUE]
    ELSE IF run.kind = "FileNotFoundError"
    THEN [success |-> FALSE, value |-> ManimNotFoundMessage, logs |-> <<>>, searched |-> FALSE]
    ELSE [success |-> FALSE, value |-> <<"Rendering error: ">> \o run.msg,
          logs |-> <<>>, searched |-> FALSE]

\* variant: the return code is not looked at
render_ignoring_returncode(class_name, run, files) ==
    IF run.kind = "exited"
    THEN LET output_log == run.stdout \o <<"\n">> \o run.stderr
             video_path == _find_latest_video(class_name, files)
         IN  IF video_path # NoVideo
             THEN [success |-> TRUE, value |-> <<video_path>>,
                   logs |-> output_log, searched |-> TRUE]
             ELSE [success |-> FALSE, value |-> VideoNotFoundMessage,
                   logs |-> output_log, searched |-> TRUE]
    ELSE IF run.kind = "TimeoutExpired"
    THEN [success |-> FALSE, value |-> TimeoutMessage, logs |-> <<>>, searched |-> FALSE]
    ELSE IF run.kind = "FileNotFoundError"
    THEN [success |-> FALSE, value |-> ManimNotFoundMessage, logs |-> <<>>, searched |-> FALSE]
    ELSE [success |-> FALSE, value |-> <<"Rendering error: ">> \o run.msg,
          logs |-> <<>>, searched |-> FALSE]

\* render, lines 234-261, given how subprocess.run ended and the media directory
\* after it: <<success, video_path_or_error, output_log, artifact search performed>>
render(class_name, run, files) ==
    IF run.kind = "exited"
    THEN LET output_log == run.stdout \o <<"\n">> \o run.stderr
         IN  IF run.returncode # 0
             THEN [success |-> FALSE, value |-> <<"Rendering failed: ">> \o run.stderr,
                   logs |-> output_log, searched |-> FALSE]
             ELSE LET video_path == _find_latest_video(class_name, files)
                  IN  IF video_path # NoVideo
                      THEN [success |-> TRUE, value |-> <<video_path>>,
                            logs |-> output_log, searched |-> TRUE]
                      ELSE [success |-> FALSE, value |-> VideoNotFoundMessage,
                            logs |-> output_log, searched |-> TRUE]
    ELSE IF run.kind = "TimeoutExpired"
    THEN [success |-> FALSE, value |-> TimeoutMessage, logs |-> <<>>, searched |-> FALSE]
    ELSE IF run.kind = "FileNotFoundError"
    THEN [success |-> FALSE, value |-> ManimNotFoundMessage, logs |-> <<>>, searched |-> FALSE]
    ELSE [success |-> FALSE, value |-> <<"Rendering error: ">> \o run.msg,
          logs |-> <<>>, searched |-> FALSE]

(***************************************************************************)
(* The environment of the driver and the values the outside world supplies *)
(***************************************************************************)
Callers == {"c1", "c2"}

\* the last second the clock may reach
MaxClock == 1

PromptFile(name) == Cwd \o PROMPTS_DIR \o << <<name>> >>

JsonString(s) == [type |-> "string", s |-> s]
JsonOther(type) == [type |-> type, s |-> <<>>]

NoConfigFile == [exists |-> FALSE, valid |-> TRUE, object |-> TRUE, items |-> <<>>]
ConfigObject(items) == [exists |-> TRUE, valid |-> TRUE, object |-> TRUE, items |-> items]

PlannerTemplate == <<"Plan this: ", "{", "user_prompt", "}">>
PlainTemplate == <<"Plan an animation.">>
CodeTemplate ==
    <<"Write class ", "{", "class_name", "}", " for ", "{", "animation_plan", "}",
      " asked as ", "{", "user_prompt", "}">>

RepoPromptFiles ==
    [p \in {PromptFile("planner_system_prompt.txt"), PromptFile("code_gen_system_prompt.txt"),
            PromptFile("plain.txt")} |->
        IF p = PromptFile("planner_system_prompt.txt") THEN PlannerTemplate
        ELSE IF p = PromptFile("plain.txt") THEN PlainTemplate
        ELSE CodeTemplate]

PipelineEnvs ==
    { [config |-> NoConfigFile, files |-> RepoPromptFiles, api_key |-> TRUE],
      [config |-> NoConfigFile, files |-> RepoPromptFiles, api_key |-> FALSE],
      [config |-> ConfigObject([k \in {"planner_prompt_file"} |->
                                   JsonString(<<".", ".", "/", "secret.txt">>)]),
       files |-> RepoPromptFiles, api_key |-> TRUE],
      [config |-> ConfigObject([k \in {"planner_prompt_file", "code_gen_prompt_file"} |->
                                   IF k = "planner_prompt_file"
                                   THEN JsonString(<<"plain.txt">>)
                                   ELSE JsonString(<<"missing.txt">>)]),
       files |-> RepoPromptFiles, api_key |-> TRUE] }

Requests == {<<"a blue circle">>, <<>>}
Plans == {<<"1. draw a circle">>, <<>>}
TokenCounts == {[input_tokens |-> 1, output_tokens |-> 2],
                [input_tokens |-> 3, output_tokens |-> 1]}
Responses ==
    { Fence \o <<"python", "\n", "class", " ", "MyScene", "(", "Scene", ")", ":", "\n">> \o Fence,
      <<"pass">> }
LoggerOutcomes == {"ok", "raises"}

StaleCode == <<"class", " ", "OldScene", "(", "Scene", ")", ":">>
InitialMedia == {<<>>, <<VideoPath("720p30", "OldScene")>>}

RunOutcomes ==
    { [kind |-> "exited", returncode |-> 0, stdout |-> <<"out">>, stderr |-> <<>>, msg |-> <<>>],
      [kind |-> "exited", returncode |-> 1, stdout |-> <<"out">>, stderr |-> <<"err">>, msg |-> <<>>],
      [kind |-> "TimeoutExpired", returncode |-> 0, stdout |-> <<>>, stderr |-> <<>>, msg |-> <<>>],
      [kind |-> "FileNotFoundError", returncode |-> 0, stdout |-> <<>>, stderr |-> <<>>, msg |-> <<>>],
      [kind |-> "Exception", returncode |-> 0, stdout |-> <<>>, stderr |-> <<>>,
       msg |-> <<"permission denied">>] }

\* what a manim run that exits 0 leaves in the media directory
Produced == {"nothing", "480p15", "partial_movie_files"}

\* datetime.now().strftime(...) prefixed with GeneratedScene_
ClassName(t) == "GeneratedScene_" \o ToString(t)

\* a file written now becomes the most recently modified one
Touch(files, path) ==
    Append(SelectSeq(files, LAMBDA f : f # path), path)

(***************************************************************************)
(* generate_animation                                                      *)
(***************************************************************************)
NoTokens == [input_tokens |-> 0, output_tokens |-> 0]
\* an exception: the stage that raised it, its type and str(e)
Exc(origin, type, msg) == [origin |-> origin, type |-> type, msg |-> msg]
NoException == Exc("", "", <<>>)

NoRun == [kind |-> "not_run", returncode |-> 0, stdout |-> <<>>, stderr |-> <<>>, msg |-> <<>>]
NoRenderReturn == [success |-> FALSE, value |-> <<>>, logs |-> <<>>, searched |-> FALSE]

\* units of the cost fields: 1e-7 USD, so that the per-million rates 0.5 and 3.0
\* are the integers 5 and 30 per token
InputRate == 5
OutputRate == 30

\* lines 303-322
InitialResult ==
    [success |-> FALSE, plan |-> <<>>, code |-> <<>>, class_name |-> "",
     video_path |-> <<>>, error |-> <<>>, logs |-> <<>>,
     token_usage |-> [total_input_tokens |-> 0, total_output_tokens |-> 0,
                      plan_input_tokens |-> 0, plan_output_tokens |-> 0,
                      code_input_tokens |-> 0, code_output_tokens |-> 0,
                      input_cost_usd |-> 0, output_cost_usd |-> 0, total_cost_usd |-> 0]]

NoResult == [none |-> TRUE]

InitialFrame ==
    [user_prompt |-> <<>>, prompt |-> <<>>, plan |-> <<>>, plan_tokens |-> NoTokens,
     class_name |-> "", code |-> <<>>, code_tokens |-> NoTokens,
     file_at_render |-> <<>>, run |-> NoRun, render_files |-> <<>>,
     render_ret |-> NoRenderReturn, exc |-> NoException,
     response |-> <<>>, code_usage |-> FALSE, code_logged |-> FALSE, overlapped |-> FALSE]

LoggerError == Exc("logger", "Exception", <<"logger failed">>)

\* control passes to the except clause of line 373 with exception exc
Raise(c, exc) ==
    /\ pc' = [pc EXCEPT ![c] = "except"]
    /\ frame' = [frame EXCEPT ![c].exc = exc]

PipelineInit ==
    /\ pc = [c \in Callers |-> "idle"]
    /\ frame = [c \in Callers |-> InitialFrame]
    /\ result = [c \in Callers |-> NoResult]
    /\ events = [c \in Callers |-> <<>>]
    /\ output_file = StaleCode
    /\ media \in InitialMedia
    /\ clock = 0
    /\ env \in PipelineEnvs

\* no invocation other than c's is between its call and its return
Alone(c) == \A d \in Callers \ {c} : pc[d] \in {"idle", "done"}

\* the invocation of d is between its entry and its return or its exception
Running(d) == pc[d] \notin {"idle", "done", "returned", "escaped"}

\* generate_animation is entered: lines 298-322. An invocation that runs while
\* another one is under way is marked, and marks the other one, as overlapped.
Invoke(c) ==
    /\ pc[c] = "idle"
    /\ \E user_prompt \in Requests, log \in LoggerOutcomes :
          /\ frame' = [d \in Callers |->
                          IF d = c
                          THEN [frame[c] EXCEPT !.user_prompt = user_prompt,
                                                !.overlapped =
                                                    \E e \in Callers \ {c} : Running(e)]
                          ELSE IF Running(d) THEN [frame[d] EXCEPT !.overlapped = TRUE]
                          ELSE frame[d]]
          /\ IF log = "ok"
             THEN /\ result' = [result EXCEPT ![c] = InitialResult]
                  /\ pc' = [pc EXCEPT ![c] = "plan"]
             ELSE /\ pc' = [pc EXCEPT ![c] = "escaped"]
                  /\ UNCHANGED result
    /\ UNCHANGED <<events, output_file, media, clock, env, fnVars>>

\* a caller invokes generate_animation while no other invocation is running
Call(c) == Alone(c) /\ Invoke(c)

\* lines 326-328 up to the model call of line 117
StartPlan(c) ==
    /\ pc[c] = "plan"
    /\ \E log \in LoggerOutcomes :
          LET loaded == _get_prompt_template("planner_prompt_file", env)
          IN  IF log = "raises"
              THEN Raise(c, LoggerError) /\ UNCHANGED events
              ELSE IF ~env.api_key
              THEN Raise(c, Exc("plan_stage", "ValueError", <<"GEMINI_API_KEY not found">>))
                   /\ UNCHANGED events
              ELSE IF loaded.outcome.kind = "raised"
              THEN Raise(c, Exc("plan_stage", loaded.outcome.type, <<loaded.outcome.msg>>))
                   /\ UNCHANGED events
              ELSE /\ pc' = [pc EXCEPT ![c] = "plan_call"]
                   /\ frame' = [frame EXCEPT ![c].prompt =
                                   PlanPrompt(loaded.outcome.value, frame[c].user_prompt)]
                   /\ events' = [events EXCEPT ![c] = Append(@, "plan_call")]
    /\ UNCHANGED <<result, output_file, media, clock, env, fnVars>>

\* variant: the exception of the model call is swallowed and the driver goes on
PlanCallRaises_swallowed(c) ==
    /\ pc[c] = "plan_call"
    /\ pc' = [pc EXCEPT ![c] = "code"]
    /\ UNCHANGED <<frame, result, events, output_file, media, clock, env, fnVars>>

\* the model call of line 117 raises
PlanCallRaises(c) ==
    /\ pc[c] = "plan_call"
    /\ Raise(c, Exc("plan_stage", "APIError", <<"plan request failed">>))
    /\ UNCHANGED <<result, events, output_file, media, clock, env, fnVars>>

\* variant: the plan call's token counts are stored with the totals, after the
\* code stage, and not at lines 330-331
PlanCallReturns_counts_deferred(c) ==
    /\ pc[c] = "plan_call"
    /\ \E plan \in Plans, plan_tokens \in TokenCounts, log \in LoggerOutcomes :
          /\ result' = [result EXCEPT ![c].plan = plan]
          /\ frame' = [frame EXCEPT ![c].plan = plan, ![c].plan_tokens = plan_tokens,
                           ![c].exc = IF log = "ok" THEN @ ELSE LoggerError]
          /\ pc' = [pc EXCEPT ![c] = IF log = "ok" THEN "code" ELSE "except"]
    /\ events' = [events EXCEPT ![c] = Append(@, "plan_ret")]
    /\ UNCHANGED <<output_file, media, clock, env, fnVars>>

\* the model call of line 117 returns: lines 119-125 and 329-332
PlanCallReturns(c) ==
    /\ pc[c] = "plan_call"
    /\ \E plan \in Plans, plan_tokens \in TokenCounts, log \in LoggerOutcomes :
          /\ result' = [result EXCEPT ![c].plan = plan,
                           ![c].token_usage.plan_input_tokens = plan_tokens.input_tokens,
                           ![c].token_usage.plan_output_tokens = plan_tokens.output_tokens]
          /\ frame' = [frame EXCEPT ![c].plan = plan, ![c].plan_tokens = plan_tokens,
                           ![c].exc = IF log = "ok" THEN @ ELSE LoggerError]
          /\ pc' = [pc EXCEPT ![c] = IF log = "ok" THEN "code" ELSE "except"]
    /\ events' = [events EXCEPT ![c] = Append(@, "plan_ret")]
    /\ UNCHANGED <<output_file, media, clock, env, fnVars>>

\* lines 335-337 and 155-168, up to the model call of line 170
StartCode(c) ==
    /\ pc[c] = "code"
    /\ \E log \in LoggerOutcomes, now \in clock..MaxClock :
          LET loaded == _get_prompt_template("code_gen_prompt_file", env)
          IN  IF log = "raises"
              THEN Raise(c, LoggerError) /\ UNCHANGED <<events, clock>>
              ELSE IF ~env.api_key
              THEN Raise(c, Exc("code_stage", "ValueError", <<"GEMINI_API_KEY not found">>))
                   /\ UNCHANGED <<events, clock>>
              ELSE IF loaded.outcome.kind = "raised"
              THEN /\ pc' = [pc EXCEPT ![c] = "except"]
                   /\ frame' = [frame EXCEPT ![c].class_name = ClassName(now),
                                   ![c].exc = Exc("code_stage", loaded.outcome.type,
                                                  <<loaded.outcome.msg>>)]
                   /\ clock' = now
                   /\ UNCHANGED events
              ELSE /\ pc' = [pc EXCEPT ![c] = "code_call"]
                   /\ frame' = [frame EXCEPT ![c].class_name = ClassName(now),
                                   ![c].prompt = CodePrompt(loaded.outcome.value, ClassName(now),
                                                            frame[c].plan, frame[c].user_prompt)]
                   /\ clock' = now
                   /\ events' = [events EXCEPT ![c] = Append(@, "code_call")]
    /\ UNCHANGED <<result, output_file, media, env, fnVars>>

\* variant: the output file is opened for writing before the model call, so a
\* failed call leaves it empty
CodeCallRaises_file_truncated(c) ==
    /\ pc[c] = "code_call"
    /\ output_file' = <<>>
    /\ Raise(c, Exc("code_stage", "APIError", <<"code request failed">>))
    /\ UNCHANGED <<result, events, media, clock, env, fnVars>>

\* the model call of line 170 raises
CodeCallRaises(c) ==
    /\ pc[c] = "code_call"
    /\ Raise(c, Exc("code_stage", "APIError", <<"code request failed">>))
    /\ UNCHANGED <<result, events, output_file, media, clock, env, fnVars>>

\* the model call of line 170 returns: lines 171-183
CodeCallReturns(c) ==
    /\ pc[c] = "code_call"
    /\ \E response \in Responses, code_tokens \in TokenCounts :
          frame' = [frame EXCEPT
                       ![c].code = _ensure_class_name(_clean_code(response), frame[c].class_name),
                       ![c].code_tokens = code_tokens,
                       ![c].response = response,
                       ![c].code_usage = TRUE]
    /\ pc' = [pc EXCEPT ![c] = "write"]
    /\ UNCHANGED <<result, events, output_file, media, clock, env, fnVars>>

\* lines 338-341, after generate_code returned
CodeResult(c) ==
    [result[c] EXCEPT
        !.code = frame[c].code,
        !.class_name = frame[c].class_name,
        !.token_usage.code_input_tokens = frame[c].code_tokens.input_tokens,
        !.token_usage.code_output_tokens = frame[c].code_tokens.output_tokens]

\* lines 345-356: the totals and the cost estimate, from the four counts of
\* the record r
TokenTotals(r) ==
    LET total_input == r.token_usage.plan_input_tokens + r.token_usage.code_input_tokens
        total_output == r.token_usage.plan_output_tokens + r.token_usage.code_output_tokens
        input_cost == total_input * InputRate
        output_cost == total_output * OutputRate
    IN  [r EXCEPT
            !.token_usage.total_input_tokens = total_input,
            !.token_usage.total_output_tokens = total_output,
            !.token_usage.input_cost_usd = input_cost,
            !.token_usage.output_cost_usd = output_cost,
            !.token_usage.total_cost_usd = input_cost + output_cost]

\* variant: generate_code returns the code without writing it to the file
WriteFile_without_write(c) ==
    /\ pc[c] = "write"
    /\ events' = [events EXCEPT ![c] = Append(Append(@, "write_file"), "code_ret")]
    /\ \E log \in LoggerOutcomes :
          IF log = "ok"
          THEN /\ result' = [result EXCEPT ![c] = TokenTotals(CodeResult(c))]
               /\ pc' = [pc EXCEPT ![c] = "render"]
               /\ frame' = [frame EXCEPT ![c].code_logged = TRUE]
          ELSE /\ result' = [result EXCEPT ![c] = CodeResult(c)]
               /\ pc' = [pc EXCEPT ![c] = "except"]
               /\ frame' = [frame EXCEPT ![c].exc = LoggerError]
    /\ UNCHANGED <<output_file, media, clock, env, fnVars>>

\* write_text of line 186 succeeds: lines 186-188 and 338-356; the logger call
\* of line 342 stands between the code fields and the totals
WriteFile(c) ==
    /\ pc[c] = "write"
    /\ output_file' = frame[c].code
    /\ events' = [events EXCEPT ![c] = Append(Append(@, "write_file"), "code_ret")]
    /\ \E log \in LoggerOutcomes :
          IF log = "ok"
          THEN /\ result' = [result EXCEPT ![c] = TokenTotals(CodeResult(c))]
               /\ pc' = [pc EXCEPT ![c] = "render"]
               /\ frame' = [frame EXCEPT ![c].code_logged = TRUE]
          ELSE /\ result' = [result EXCEPT ![c] = CodeResult(c)]
               /\ pc' = [pc EXCEPT ![c] = "except"]
               /\ frame' = [frame EXCEPT ![c].exc = LoggerError]
    /\ UNCHANGED <<media, clock, env, fnVars>>

\* write_text of line 186 raises: the file is left as it was, or truncated
WriteFileRaises(c) ==
    /\ pc[c] = "write"
    /\ output_file' \in {output_file, <<>>}
    /\ events' = [events EXCEPT ![c] = Append(@, "write_file")]
    /\ Raise(c, Exc("code_stage", "OSError", <<"cannot write">>))
    /\ UNCHANGED <<result, media, clock, env, fnVars>>

\* lines 359-361 up to subprocess.run of line 236, where manim reads the file
StartRender(c) ==
    /\ pc[c] = "render"
    /\ \E log \in LoggerOutcomes :
          IF log = "raises"
          THEN Raise(c, LoggerError) /\ UNCHANGED events
          ELSE /\ pc' = [pc EXCEPT ![c] = "render_call"]
               /\ frame' = [frame EXCEPT ![c].file_at_render = output_file]
               /\ events' = [events EXCEPT ![c] = Append(@, "render_run")]
    /\ UNCHANGED <<result, output_file, media, clock, env, fnVars>>

\* subprocess.run ends: the rest of render, and lines 362-371
RenderEnds(c) ==
    /\ pc[c] = "render_call"
    /\ \E run \in RunOutcomes, produced \in Produced,
          log \in {"ok", "completed_raises", "outcome_raises"} :
          LET files == IF run.kind = "exited" /\ run.returncode = 0 /\ produced # "nothing"
                       THEN Touch(media, VideoPath(produced, result[c].class_name))
                       ELSE media
              r == render(result[c].class_name, run, files)
              with_logs == [result[c] EXCEPT !.logs = r.logs]
          IN  /\ (produced # "nothing") => (run.kind = "exited" /\ run.returncode = 0)
              /\ media' = files
              /\ events' = [events EXCEPT ![c] =
                               IF r.searched THEN Append(Append(@, "render_ret"), "find_video")
                               ELSE Append(@, "render_ret")]
              /\ result' = [result EXCEPT ![c] =
                               IF log = "completed_raises" THEN with_logs
                               ELSE IF r.success
                               THEN [with_logs EXCEPT !.success = TRUE, !.video_path = r.value]
                               ELSE [with_logs EXCEPT !.error = r.value]]
              /\ pc' = [pc EXCEPT ![c] = IF log = "ok" THEN "returned" ELSE "except"]
              /\ frame' = [frame EXCEPT ![c].run = run, ![c].render_files = files,
                               ![c].render_ret = r,
                               ![c].exc = IF log = "ok" THEN @ ELSE LoggerError]
    /\ UNCHANGED <<output_file, clock, env, fnVars>>

\* variant: the except clause builds a fresh failure record
Except_fresh_record(c) ==
    /\ pc[c] = "except"
    /\ result' = [result EXCEPT ![c] =
                     [InitialResult EXCEPT !.error =
                         <<"Error in animation generation pipeline: ">> \o frame[c].exc.msg]]
    /\ \E log \in LoggerOutcomes :
          pc' = [pc EXCEPT ![c] = IF log = "ok" THEN "returned" ELSE "escaped"]
    /\ UNCHANGED <<frame, events, output_file, media, clock, env, fnVars>>

\* lines 373-378
Except(c) ==
    /\ pc[c] = "except"
    /\ result' = [result EXCEPT ![c].error =
                     <<"Error in animation generation pipeline: ">> \o frame[c].exc.msg]
    /\ \E log \in LoggerOutcomes :
          pc' = [pc EXCEPT ![c] = IF log = "ok" THEN "returned" ELSE "escaped"]
    /\ UNCHANGED <<frame, events, output_file, media, clock, env, fnVars>>

\* the caller has shown the result (or the exception) and drops it
Finish(c) ==
    /\ pc[c] \in {"returned", "escaped"}
    /\ pc' = [pc EXCEPT ![c] = "done"]
    /\ frame' = [frame EXCEPT ![c] = InitialFrame]
    /\ result' = [result EXCEPT ![c] = NoResult]
    /\ events' = [events EXCEPT ![c] = <<>>]
    /\ UNCHANGED <<output_file, media, clock, env, fnVars>>

Next ==
    \E c \in Callers :
        \/ Call(c)
        \/ StartPlan(c)
        \/ PlanCallRaises(c)
        \/ PlanCallReturns(c)
        \/ StartCode(c)
        \/ CodeCallRaises(c)
        \/ CodeCallReturns(c)
        \/ WriteFile(c)
        \/ WriteFileRaises(c)
        \/ StartRender(c)
        \/ RenderEnds(c)
        \/ Except(c)
        \/ Finish(c)

Init == PipelineInit /\ fn_args = NotCalled /\ fn_ret = NotCalled

Spec == Init /\ [][Next]_vars

(***************************************************************************)
(* Invocations that overlap: two callers (threads, or two processes in the *)
(* same working directory) run generate_animation with nothing keeping     *)
(* them apart, so their steps interleave. The inputs are a part of those   *)
(* of Spec: the default configuration, an empty media directory, the empty *)
(* request and plan, one pair of token counts.                             *)
(***************************************************************************)
ConcurrentTokenCounts == {NoTokens, [input_tokens |-> 1, output_tokens |-> 2]}

ConcurrentInputs ==
    \A c \in Callers :
        /\ frame[c].user_prompt = <<>>
        /\ frame[c].plan = <<>>
        /\ frame[c].plan_tokens \in ConcurrentTokenCounts
        /\ frame[c].code_tokens \in ConcurrentTokenCounts

InitConcurrent ==
    /\ Init
    /\ env = [config |-> NoConfigFile, files |-> RepoPromptFiles, api_key |-> TRUE]
    /\ media = <<>>

NextConcurrent ==
    \E c \in Callers :
        \/ Invoke(c) /\ ConcurrentInputs'
        \/ StartPlan(c) /\ ConcurrentInputs'
        \/ PlanCallRaises(c) /\ ConcurrentInputs'
        \/ PlanCallReturns(c) /\ ConcurrentInputs'
        \/ StartCode(c) /\ ConcurrentInputs'
        \/ CodeCallRaises(c) /\ ConcurrentInputs'
        \/ CodeCallReturns(c) /\ ConcurrentInputs'
        \/ WriteFile(c) /\ ConcurrentInputs'
        \/ WriteFileRaises(c) /\ ConcurrentInputs'
        \/ StartRender(c) /\ ConcurrentInputs'
        \/ RenderEnds(c) /\ ConcurrentInputs'
        \/ Except(c) /\ ConcurrentInputs'
        \/ Finish(c) /\ ConcurrentInputs'

SpecConcurrent == InitConcurrent /\ [][NextConcurrent]_vars

(***************************************************************************)
(* Specifications that call one helper on every input of a bounded set.    *)
(* The driver stays idle in them.                                          *)
(***************************************************************************)
PipelineQuiet ==
    /\ pc = [c \in Callers |-> "idle"]
    /\ frame = [c \in Callers |-> InitialFrame]
    /\ result = [c \in Callers |-> NoResult]
    /\ events = [c \in Callers |-> <<>>]
    /\ output_file = StaleCode
    /\ media = <<>>
    /\ clock = 0
    /\ env = [config |-> NoConfigFile, files |-> RepoPromptFiles, api_key |-> TRUE]

\* ---- _clean_code -------------------------------------------------------
MaxCodeLen == 7
CleanAlphabet == {Backtick, "python", " ", "x"}

InitClean ==
    /\ PipelineQuiet
    /\ fn_args \in {[code |-> t] : t \in SeqsUpTo(CleanAlphabet, MaxCodeLen)}
    /\ fn_ret = NotCalled

CleanCode ==
    /\ fn_ret = NotCalled
    /\ fn_ret' = [kind |-> "returned", value |-> _clean_code(fn_args.code)]
    /\ UNCHANGED <<fn_args, pipelineVars>>

CleanCodeAgain ==
    /\ fn_ret.kind = "returned"
    /\ fn_ret' = [kind |-> "returned_twice", value |-> fn_ret.value,
                  second |-> _clean_code(fn_ret.value)]
    /\ UNCHANGED <<fn_args, pipelineVars>>

NextClean == CleanCode \/ CleanCodeAgain

SpecClean == InitClean /\ [][NextClean]_vars

\* ---- _ensure_class_name ------------------------------------------------
MaxChunks == 3
ClassChunks ==
    { <<"class", " ", "MyScene", "(", "Scene", ")", ":">>,
      <<"class", " ", "\n", "Other", "(", "Scene", ")", ":">>,
      <<"class", " ", "Cube", "(", "ThreeDScene", ")", ":">>,
      <<"class", "Glued", "(", "Scene", ")">>,
      <<"\n">>,
      <<"x">> }

InitClass ==
    /\ PipelineQuiet
    /\ fn_args \in {[code |-> Concat(chunks), expected_class_name |-> ClassName(0)] :
                       chunks \in SeqsUpTo(ClassChunks, MaxChunks)}
    /\ fn_ret = NotCalled

EnsureClassName ==
    /\ fn_ret = NotCalled
    /\ fn_ret' = [kind |-> "returned",
                  value |-> _ensure_class_name(fn_args.code, fn_args.expected_class_name)]
    /\ UNCHANGED <<fn_args, pipelineVars>>

NextClass == EnsureClassName

SpecClass == InitClass /\ [][NextClass]_vars

\* ---- the prompt of generate_plan ---------------------------------------
MaxTemplateChunks == 3
TemplateChunks ==
    { Placeholder("user_prompt"), Placeholder("plan_output"),
      <<"{">>, <<"user_prompt">>, <<"}">>, <<"Plan: ">> }
MaxRequestLen == 2
RequestAlphabet == {"circle", "{", "user_prompt", "}"}

InitPrompt ==
    /\ PipelineQuiet
    /\ fn_args \in {[planner_template |-> Concat(chunks), user_prompt |-> r] :
                       chunks \in SeqsUpTo(TemplateChunks, MaxTemplateChunks),
                       r \in SeqsUpTo(RequestAlphabet, MaxRequestLen)}
    /\ fn_ret = NotCalled

BuildPlanPrompt ==
    /\ fn_ret = NotCalled
    /\ fn_ret' = [kind |-> "returned",
                  value |-> PlanPrompt(fn_args.planner_template, fn_args.user_prompt)]
    /\ UNCHANGED <<fn_args, pipelineVars>>

NextPrompt == BuildPlanPrompt

SpecPrompt == InitPrompt /\ [][NextPrompt]_vars

\* ---- the prompt of generate_code ---------------------------------------
MaxCodeTemplateChunks == 2
CodeTemplateChunks ==
    { Placeholder("class_name"), Placeholder("animation_plan"), Placeholder("plan_output"),
      Placeholder("user_prompt"), <<"Write: ">> }
PlanTexts ==
    { <<>>, <<"1. draw">>, Placeholder("user_prompt"), Placeholder("plan_output"),
      <<"1. draw">> \o Placeholder("class_name") }
RequestTexts == { <<>>, <<"circle">>, Placeholder("animation_plan") }

InitCodePrompt ==
    /\ PipelineQuiet
    /\ fn_args \in {[code_template |-> Concat(chunks), class_name |-> ClassName(0),
                      animation_plan |-> p, user_prompt |-> r] :
                       chunks \in SeqsUpTo(CodeTemplateChunks, MaxCodeTemplateChunks),
                       p \in PlanTexts, r \in RequestTexts}
    /\ fn_ret = NotCalled

BuildCodePrompt ==
    /\ fn_ret = NotCalled
    /\ fn_ret' = [kind |-> "returned",
                  value |-> CodePrompt(fn_args.code_template, fn_args.class_name,
                                       fn_args.animation_plan, fn_args.user_prompt)]
    /\ UNCHANGED <<fn_args, pipelineVars>>

NextCodePrompt == BuildCodePrompt

SpecCodePrompt == InitCodePrompt /\ [][NextCodePrompt]_vars

\* ---- _get_prompt_template ----------------------------------------------
MaxNameLen == 5
NameAlphabet == {"/", ".", " ", "prompts", "a"}

\* files inside and outside the prompts directory: /w/prompts/a, /w/a and /a
FilesEverywhere ==
    [p \in DOMAIN RepoPromptFiles \cup
           {PromptFile("a"), Cwd \o << <<"a">> >>, << <<"a">> >>} |->
        IF p \in DOMAIN RepoPromptFiles THEN RepoPromptFiles[p]
        ELSE IF p = PromptFile("a") THEN <<"inside">>
        ELSE <<"secret">>]

ConfigKeys == {"planner_prompt_file", "code_gen_prompt_file"}

ConfigFiles ==
    { NoConfigFile,
      [exists |-> TRUE, valid |-> FALSE, object |-> FALSE, items |-> <<>>],
      [exists |-> TRUE, valid |-> TRUE, object |-> FALSE, items |-> <<>>],
      ConfigObject(<<>>) }
    \cup {ConfigObject([k \in {key} |-> v]) :
             key \in ConfigKeys,
             v \in {JsonOther("number"), JsonOther("null"), JsonOther("list")}
                   \cup {JsonString(n) : n \in SeqsUpTo(NameAlphabet, MaxNameLen)}}

InitTemplate ==
    /\ PipelineQuiet
    /\ fn_args \in {[config_key |-> k,
                     fs_env |-> [config |-> cf, files |-> FilesEverywhere]] :
                       k \in ConfigKeys, cf \in ConfigFiles}
    /\ fn_ret = NotCalled

GetPromptTemplate ==
    /\ fn_ret = NotCalled
    /\ LET got == _get_prompt_template(fn_args.config_key, fn_args.fs_env)
       IN  fn_ret' = [kind |-> "called", outcome |-> got.outcome, fs |-> got.fs]
    /\ UNCHANGED <<fn_args, pipelineVars>>

NextTemplate == GetPromptTemplate

SpecTemplate == InitTemplate /\ [][NextTemplate]_vars

\* ---- _find_latest_video ------------------------------------------------
\* The media directory holds at most MaxVideos videos, listed from the least
\* to the most recently modified; an absent directory is the empty listing.
MaxVideos == 3
VideoFiles ==
    {VideoPath(Qualities[i], ClassName(0)) : i \in 1..Len(Qualities)}
        \cup {VideoPath("480p15", "OldScene"), VideoPath("partial_movie_files", ClassName(0))}

Listings ==
    {files \in SeqsUpTo(VideoFiles, MaxVideos) :
        \A i, j \in 1..Len(files) : files[i] = files[j] => i = j}

InitFind ==
    /\ PipelineQuiet
    /\ fn_args \in {[class_name |-> ClassName(0), files |-> files] : files \in Listings}
    /\ fn_ret = NotCalled

FindLatestVideo ==
    /\ fn_ret = NotCalled
    /\ fn_ret' = [kind |-> "returned",
                  value |-> _find_latest_video(fn_args.class_name, fn_args.files)]
    /\ UNCHANGED <<fn_args, pipelineVars>>

NextFind == FindLatestVideo

SpecFind == InitFind /\ [][NextFind]_vars

(***************************************************************************)
(* Properties                                                              *)
(***************************************************************************)
InSeq(x, seq) == \E i \in 1..Len(seq) : seq[i] = x
IsPrefix(s, t) == Len(s) <= Len(t) /\ SubSeq(t, 1, Len(s)) = s
Occurrences(text, lit) == Cardinality({i \in 1..Len(text) : StartsAt(text, i, lit)})

ResultKeys ==
    {"success", "plan", "code", "class_name", "video_path", "error", "logs", "token_usage"}

\* C1: every call of generate_animation ends by returning a record with the keys
\* success, plan, code, class_name, video_path, error, logs and token_usage; no
\* exception reaches the caller, whatever the progress callback and the stages do.
C1_AlwaysReturnsRecord ==
    \A c \in Callers :
        /\ pc[c] # "escaped"
        /\ pc[c] = "returned" => DOMAIN result[c] = ResultKeys

FullRun ==
    <<"plan_call", "plan_ret", "code_call", "write_file", "code_ret",
      "render_run", "render_ret", "find_video">>

\* C2: the stages start in the order plan, code, render, each at most once and
\* each only after the one before returned (the render command after the file
\* was written), and after an exception no further stage starts.
C2_StagesInOrder ==
    /\ [](\A c \in Callers : IsPrefix(events[c], FullRun))
    /\ [][\A c \in Callers :
             pc[c] \in {"except", "returned", "escaped"} => IsPrefix(events'[c], events[c])]_vars

C2_Witness ==
    \E c \in Callers :
        /\ pc[c] = "returned"
        /\ InSeq("plan_call", events[c])
        /\ InSeq("code_call", events[c])
        /\ InSeq("render_run", events[c])

\* C3: a returned record keeps what the pipeline had produced: after the plan
\* stage returned and the code stage raised, plan is the plan text, code and
\* class_name are empty, success is false and error is not empty; after the code
\* stage returned and the render failed, plan, code and class_name are the values
\* the stages returned.
C3_PartialResultsPreserved ==
    \A c \in Callers :
        pc[c] = "returned" =>
            /\ (InSeq("plan_ret", events[c]) /\ frame[c].exc.origin = "code_stage") =>
                  /\ result[c].plan = frame[c].plan
                  /\ result[c].code = <<>>
                  /\ result[c].class_name = ""
                  /\ ~result[c].success
                  /\ result[c].error # <<>>
            /\ (InSeq("render_ret", events[c]) /\ ~frame[c].render_ret.success) =>
                  /\ result[c].plan = frame[c].plan
                  /\ result[c].code = frame[c].code
                  /\ result[c].class_name = frame[c].class_name

C3_Witness ==
    \E c \in Callers :
        /\ pc[c] = "returned"
        /\ frame[c].exc.origin = "code_stage"
        /\ frame[c].plan # <<>>
        /\ result[c].plan = frame[c].plan

\* the location a configured file name denotes, component by component, starting
\* in the prompts directory (or at the root for an absolute name)
RECURSIVE C4_LocationAfter(_, _, _)
C4_LocationAfter(parts, k, start) ==
    IF k = 0 THEN start
    ELSE LET before == C4_LocationAfter(parts, k - 1, start)
         IN  IF parts[k] = <<".", ".">>
             THEN IF before = <<>> THEN <<>> ELSE SubSeq(before, 1, Len(before) - 1)
             ELSE Append(before, parts[k])

C4_Location(name) ==
    C4_LocationAfter(PathParts(name), Len(PathParts(name)),
                     IF IsAbsolute(name) THEN <<>> ELSE Cwd \o PROMPTS_DIR)

C4_Outside(name) ==
    LET at == C4_Location(name)
        dir == Cwd \o PROMPTS_DIR
    IN  ~(Len(at) >= Len(dir) /\ \A i \in 1..Len(dir) : at[i] = dir[i])

ConfiguredValue == fn_args.fs_env.config.items[fn_args.config_key]

HasConfiguredValue ==
    /\ fn_args.fs_env.config.exists
    /\ fn_args.fs_env.config.valid
    /\ fn_args.fs_env.config.object
    /\ fn_args.config_key \in DOMAIN fn_args.fs_env.config.items

\* C4: a configured file name that resolves outside the prompts directory makes
\* _get_prompt_template fail with the containment error, without an existence
\* check or a read of that path.
C4_ContainmentEnforced ==
    (/\ fn_ret.kind = "called"
     /\ HasConfiguredValue
     /\ IsStr(ConfiguredValue)
     /\ C4_Outside(ConfiguredValue.s)) =>
        /\ fn_ret.outcome = Raised("ValueError", "must be inside")
        /\ fn_ret.fs = <<>>

C4_Witness ==
    /\ fn_ret.kind = "called"
    /\ HasConfiguredValue
    /\ ConfiguredValue = JsonString(<<".", ".", "/", "a">>)
    /\ fn_ret.outcome = Raised("ValueError", "must be inside")

\* C5: a configured value that is not a non-empty string (a number, null, a list,
\* an empty or whitespace-only string) makes template loading fail with the
\* configuration error; no template is returned.
C5_NonStringRejected ==
    (/\ fn_ret.kind = "called"
     /\ HasConfiguredValue
     /\ (~IsStr(ConfiguredValue) \/ Strip(ConfiguredValue.s) = <<>>)) =>
        fn_ret.outcome = Raised("ValueError", "must be a non-empty string")

\* C6: the prompt generate_plan submits contains the request text: substituted
\* at every occurrence of the placeholder when the template has one, appended
\* after the User Request label when it has none.
C6_RequestInPlanPrompt ==
    fn_ret.kind = "returned" =>
        LET template == fn_args.planner_template
            request == fn_args.user_prompt
            n == Occurrences(template, Placeholder("user_prompt"))
        IN  /\ Contains(fn_ret.value, request)
            /\ n > 0 => Len(fn_ret.value) + n * Len(Placeholder("user_prompt"))
                            = Len(template) + n * Len(request)
            /\ n = 0 => fn_ret.value = template \o UserRequestLabel \o request

C6_Witness ==
    /\ fn_ret.kind = "returned"
    /\ Occurrences(fn_args.planner_template, Placeholder("user_prompt")) = 2
    /\ fn_args.user_prompt = <<"circle">>
    /\ Occurrences(fn_ret.value, <<"circle">>) = 2

\* C7: when the input holds one or more scene-class declarations, the output of
\* _ensure_class_name holds exactly one declaration with the expected name, and
\* the text outside the declarations is unchanged.
C7_ExactlyOneDeclaration ==
    fn_ret.kind = "returned" =>
        LET expected == <<"class", " ", fn_args.expected_class_name, "(", "Scene", ")">>
            declared == {i \in 1..Len(fn_args.code) : SceneClassMatchEnd(fn_args.code, i) # 0}
        IN  declared # {} =>
                /\ Occurrences(fn_ret.value, expected) = 1
                /\ ReSubSceneClassFrom(fn_ret.value, 1, <<>>)
                       = ReSubSceneClassFrom(fn_args.code, 1, <<>>)

\* C8: _clean_code applied to its own output changes nothing, and its output
\* holds no fence and no leading or trailing whitespace, also when removing a
\* python fence joins the backticks around it into a new fence.
C8_CleanIdempotentFenceFree ==
    /\ fn_ret.kind \in {"returned", "returned_twice"} =>
          /\ ~Contains(fn_ret.value, Fence)
          /\ fn_ret.value # <<>> =>
                /\ fn_ret.value[1] \notin Whitespace
                /\ fn_ret.value[Len(fn_ret.value)] \notin Whitespace
    /\ fn_ret.kind = "returned_twice" => fn_ret.second = fn_ret.value

C8_Witness ==
    /\ fn_ret.kind = "returned_twice"
    /\ fn_args.code = <<Backtick, Backtick, Backtick, Backtick, Backtick, "python", Backtick>>
    /\ ReSubDrop(fn_args.code, FencePython) = Fence
    /\ fn_ret.value = <<>>

\* C9: a render command that times out gives (False, the timeout message, "")
\* without an artifact search, and the result then has success false and empty
\* video_path and logs; no other outcome of the command gives the timeout message.
C9_TimeoutOutcome ==
    \A c \in Callers :
        /\ frame[c].run.kind = "TimeoutExpired" =>
              /\ frame[c].render_ret =
                     [success |-> FALSE, value |-> TimeoutMessage, logs |-> <<>>,
                      searched |-> FALSE]
              /\ ~InSeq("find_video", events[c])
              /\ ~result[c].success
              /\ result[c].video_path = <<>>
              /\ result[c].logs = <<>>
        /\ frame[c].run.kind \notin {"not_run", "TimeoutExpired"} =>
              frame[c].render_ret.value # TimeoutMessage

C9_Witness ==
    \E c \in Callers :
        /\ pc[c] = "returned"
        /\ frame[c].run.kind = "TimeoutExpired"
        /\ result[c].error = TimeoutMessage

\* C10: a command that exits 0 while the media directory holds no video gives
\* failure with the not-found message and the captured log; a command that exits
\* non-zero gives failure with the captured standard error in the error text and
\* no artifact search.
C10_ExitCodeNotSufficient ==
    \A c \in Callers :
        /\ (/\ frame[c].run.kind = "exited"
            /\ frame[c].run.returncode = 0
            /\ frame[c].render_files = <<>>) =>
              frame[c].render_ret =
                  [success |-> FALSE, value |-> VideoNotFoundMessage,
                   logs |-> frame[c].run.stdout \o <<"\n">> \o frame[c].run.stderr,
                   searched |-> TRUE]
        /\ (frame[c].run.kind = "exited" /\ frame[c].run.returncode # 0) =>
              /\ ~frame[c].render_ret.success
              /\ frame[c].render_ret.value = <<"Rendering failed: ">> \o frame[c].run.stderr
              /\ frame[c].render_ret.logs =
                     frame[c].run.stdout \o <<"\n">> \o frame[c].run.stderr
              /\ ~frame[c].render_ret.searched
              /\ ~InSeq("find_video", events[c])

C10_Witness ==
    \E c \in Callers :
        /\ pc[c] = "returned"
        /\ frame[c].run.kind = "exited"
        /\ frame[c].run.returncode = 0
        /\ frame[c].render_files = <<>>
        /\ result[c].error = VideoNotFoundMessage
        /\ result[c].logs # <<>>

\* C11: the video search returns the first of the three expected paths that
\* exists, in the order 480p15, 720p30, 1080p60, whatever else the media
\* directory holds; with none of them it returns the most recently modified
\* video of the directory, and nothing when the directory holds no video.
C11_Exists(quality) == InSeq(VideoPath(quality, fn_args.class_name), fn_args.files)

C11_Newest(path) ==
    \E i \in 1..Len(fn_args.files) :
        /\ fn_args.files[i] = path
        /\ \A j \in 1..Len(fn_args.files) : j <= i

C12_NoTotals(c) ==
    /\ result[c].token_usage.total_input_tokens = 0
    /\ result[c].token_usage.total_output_tokens = 0
    /\ result[c].token_usage.input_cost_usd = 0
    /\ result[c].token_usage.output_cost_usd = 0
    /\ result[c].token_usage.total_cost_usd = 0

C12_BothReturned(c) == InSeq("plan_ret", events[c]) /\ InSeq("code_ret", events[c])

C12_TotalsAfterBothCalls ==
    \A c \in Callers :
        pc[c] = "returned" =>
            IF C12_BothReturned(c)
            THEN /\ result[c].token_usage.total_input_tokens =
                        result[c].token_usage.plan_input_tokens
                            + result[c].token_usage.code_input_tokens
                 /\ result[c].token_usage.total_output_tokens =
                        result[c].token_usage.plan_output_tokens
                            + result[c].token_usage.code_output_tokens
            ELSE C12_NoTotals(c)

\* the plan stage returned and the code stage raised before the driver got its
\* token counts
C13_CodeStageThrew(c) ==
    /\ pc[c] = "returned"
    /\ InSeq("plan_ret", events[c])
    /\ ~InSeq("code_ret", events[c])
    /\ frame[c].exc.origin = "code_stage"

\* C13 as stated: if the plan stage succeeds but the code stage throws before
\* returning usage, the returned record carries no plan-side counts:
\* plan_input_tokens and plan_output_tokens are zero like every other field.
C13_PlanCountsDropped ==
    \A c \in Callers :
        C13_CodeStageThrew(c) =>
            /\ result[c].token_usage.plan_input_tokens = 0
            /\ result[c].token_usage.plan_output_tokens = 0

\* C13 amended: if the plan stage succeeds but the code stage throws before
\* returning usage, the plan-side counts are left out of the totals but are
\* still reported: plan_input_tokens and plan_output_tokens are the counts of
\* the plan call, and the code-side counts, the totals and the costs are zero.
C13_PlanCountsKept ==
    \A c \in Callers :
        C13_CodeStageThrew(c) =>
            /\ result[c].token_usage.plan_input_tokens = frame[c].plan_tokens.input_tokens
            /\ result[c].token_usage.plan_output_tokens = frame[c].plan_tokens.output_tokens
            /\ result[c].token_usage.code_input_tokens = 0
            /\ result[c].token_usage.code_output_tokens = 0
            /\ C12_NoTotals(c)

C13_Witness ==
    \E c \in Callers :
        /\ C13_CodeStageThrew(c)
        /\ result[c].token_usage.plan_input_tokens > 0
        /\ result[c].token_usage.plan_output_tokens > 0
        /\ result[c].token_usage.total_input_tokens = 0

\* C14: with two invocations whose steps interleave, one invocation's render
\* command can run while the output file holds the other invocation's code
\* (C14_Witness); an invocation that no other one overlaps always renders a
\* file whose content is the code its own code stage returned.
C14_OwnCodeUnlessOverlapped ==
    \A c \in Callers :
        (pc[c] = "render_call" /\ ~frame[c].overlapped) =>
            frame[c].file_at_render = result[c].code

C14_Witness ==
    \E c \in Callers : \E d \in Callers \ {c} :
        /\ pc[c] = "render_call"
        /\ InSeq("code_ret", events[d])
        /\ frame[c].file_at_render = result[d].code
        /\ frame[c].file_at_render # result[c].code

\* the value the code stage gives to the placeholder that starts at position i
\* of the template, <<"none">> when none starts there
C15_ValueAt(template, i) ==
    IF StartsAt(template, i, Placeholder("class_name")) THEN <<"value", <<fn_args.class_name>> >>
    ELSE IF StartsAt(template, i, Placeholder("animation_plan"))
    THEN <<"value", fn_args.animation_plan>>
    ELSE IF StartsAt(template, i, Placeholder("plan_output"))
    THEN <<"value", fn_args.animation_plan>>
    ELSE IF StartsAt(template, i, Placeholder("user_prompt"))
    THEN <<"value", fn_args.user_prompt>>
    ELSE <<"none">>

\* the template from position i on, with each of its own placeholders replaced
\* by its value and the values left as they are
RECURSIVE C15_Substituted(_, _)
C15_Substituted(template, i) ==
    IF i > Len(template) THEN <<>>
    ELSE IF C15_ValueAt(template, i)[1] = "value"
    THEN C15_ValueAt(template, i)[2] \o C15_Substituted(template, i + 3)
    ELSE <<template[i]>> \o C15_Substituted(template, i + 1)

\* C15: the prompt of the code stage is the template with each occurrence of
\* {class_name}, {animation_plan}, {plan_output} and {user_prompt} replaced by
\* its value; the plan and the request appear in it verbatim, and a
\* placeholder-like token inside the plan text is not expanded.
C15_PlainReplacement ==
    (DOMAIN fn_args = {"code_template", "class_name", "animation_plan", "user_prompt"}
        /\ fn_ret # NotCalled) =>
        fn_ret.value = C15_Substituted(fn_args.code_template, 1)

\* C16: in every returned record success is true exactly when video_path is
\* non-empty, success true goes with an empty error and success false with a
\* non-empty one, and success true means that the plan stage, the code stage
\* and the render all completed and that class_name is non-empty.
C16_OutcomeConsistent ==
    \A c \in Callers :
        pc[c] = "returned" =>
            /\ result[c].success <=> (result[c].video_path # <<>>)
            /\ result[c].success => result[c].error = <<>>
            /\ ~result[c].success => result[c].error # <<>>
            /\ result[c].success =>
                  /\ InSeq("plan_ret", events[c])
                  /\ InSeq("code_ret", events[c])
                  /\ InSeq("render_ret", events[c])
                  /\ result[c].class_name # ""

\* C17: the output file changes only in the write of a code stage whose model
\* call returned: a failure of the plan stage, of the template loading or of
\* the code model call leaves its content, and so does the render; and when
\* a code stage returns, the file holds exactly the text it returns, before
\* the render command of that invocation is started.
C17_WrittenOnlyByCodeStage ==
    [][/\ output_file' # output_file =>
             \E c \in Callers :
                 /\ pc[c] = "write"
                 /\ frame[c].code_usage
                 /\ ~InSeq("write_file", events[c])
                 /\ InSeq("write_file", events'[c])
       /\ \A c \in Callers :
             (~InSeq("code_ret", events[c]) /\ InSeq("code_ret", events'[c])) =>
                 /\ output_file' = result'[c].code
                 /\ output_file' = _ensure_class_name(_clean_code(frame'[c].response),
                                                      result'[c].class_name)
                 /\ ~InSeq("render_run", events'[c])]_vars

\* an invocation failed before its code stage wrote, and the file still holds
\* the code an earlier invocation wrote
C17_Witness ==
    \E c \in Callers :
        /\ pc[c] = "returned"
        /\ frame[c].exc.origin \in {"plan_stage", "code_stage"}
        /\ ~InSeq("write_file", events[c])
        /\ output_file # StaleCode
        /\ output_file # <<>>

====
